---- MODULE Spec2Model ----
(***************************************************************************)
(* doopa - a two-pass BAM deduplicator (doopa.cc).                         *)
(*                                                                         *)
(* Pass 1 scans the records and keeps, per signature, the ordinal and the  *)
(* quality-sum of the best record; pass 2 scans them again and writes the  *)
(* records whose ordinal is the stored one.  The model keeps the record    *)
(* fields the code reads, the duplicate table, the counters, the fragment  *)
(* histogram, what was written to standard output and the exit status.     *)
(*                                                                         *)
(* A 64-bit packed word is kept as the triple of its three disjoint bit    *)
(* fields <<chr (9 bits), pos (31 bits), len (24 bits)>>, which is the     *)
(* same information as the word.  Floating-point values of the statistics  *)
(* are kept as exact fractions (numerator, denominator).                   *)
(***************************************************************************)
EXTENDS Integers, Sequences, FiniteSets, TLC

\* Longest input stream (number of records in the file).
MaxRecords == 3

FRAGMENT_BIN_SIZE == 5
MAX_FRAGMENT_SIZE == 2000

-----------------------------------------------------------------------------
(* Records of the input file.                                              *)

NoMC == <<"absent">>

Rec(tid, pos, flag, cigar, mtid, mpos, mc, qual, isize, mapq) ==
    [tid |-> tid, pos |-> pos, flag |-> flag, cigar |-> cigar,
     mtid |-> mtid, mpos |-> mpos, mc |-> mc, qual |-> qual,
     isize |-> isize, mapq |-> mapq]

Op(c, n) == [op |-> c, len |-> n]

\* The records a file of the model is made of.
Records ==
    { \* A: chrom 0, pos 100, 10S90M, quality-sum 80, unpaired
      Rec(0, 100, {}, <<Op("S", 10), Op("M", 90)>>, -1, -1, NoMC, <<40, 40>>, 0, 60),
      \* B: same unclipped span as A (5S95M at 95), quality-sum 95
      Rec(0, 95, {}, <<Op("S", 5), Op("M", 95)>>, -1, -1, NoMC, <<47, 48>>, 0, 60),
      \* a unique mapped read, quality-sum 40, unclipped start below zero
      Rec(1, 2, {}, <<Op("H", 5), Op("M", 50), Op("S", 5)>>, -1, -1, NoMC, <<29, 11>>, 0, 20),
      \* unmapped, no reference id
      Rec(-1, -1, {"UNMAP"}, << >>, -1, -1, NoMC, <<30>>, 0, 0),
      \* unmapped read placed at its mapped mate's position
      Rec(0, 100, {"UNMAP", "PAIRED"}, << >>, 0, 100, NoMC, <<20, 20>>, 0, 0),
      \* secondary alignment with the span of A
      Rec(0, 100, {"SECONDARY"}, <<Op("S", 10), Op("M", 90)>>, -1, -1, NoMC, <<40, 40>>, 0, 60),
      \* QC-fail read with quality-sum 0
      Rec(1, 500, {"QCFAIL"}, <<Op("M", 50)>>, -1, -1, NoMC, <<0>>, 0, 60),
      \* proper pair with a mate-CIGAR tag, insert size 300
      Rec(0, 100, {"PAIRED", "PROPER_PAIR"}, <<Op("S", 10), Op("M", 90)>>, 0, 310,
          <<"9", "0", "M", "1", "0", "S">>, <<40, 40>>, 300, 60),
      \* proper pair without a mate-CIGAR tag, insert size above MAX_FRAGMENT_SIZE
      Rec(0, 100, {"PAIRED", "PROPER_PAIR"}, <<Op("S", 10), Op("M", 90), Op("S", 5)>>, 0, 2510,
          NoMC, <<35, 35>>, 2500, 60),
      \* proper pair, low mapping quality, tag with a leading clip
      Rec(0, 100, {"PAIRED", "PROPER_PAIR"}, <<Op("M", 100)>>, 0, 300,
          <<"5", "S", "9", "5", "M">>, <<30, 31>>, 207, 20),
      \* proper-pair flag, positive insert size and high mapping quality, but
      \* no mate reference id
      Rec(1, 700, {"PAIRED", "PROPER_PAIR"}, <<Op("M", 50)>>, -1, -1, NoMC, <<33>>, 150, 60) }

-----------------------------------------------------------------------------
(* htslib accessors used by doopa.cc.                                      *)

RECURSIVE SumLen(_, _, _)
\* sum of the lengths of the operations of cigar[i..j] whose code is in ops
SumLen(cigar, i, ops) ==
    IF i > Len(cigar) THEN 0
    ELSE (IF cigar[i].op \in ops THEN cigar[i].len ELSE 0) + SumLen(cigar, i + 1, ops)

\* bam_endpos: pos + reference length of the CIGAR (0 for an unmapped read),
\* a reference length of 0 counting as 1
bam_endpos(b) ==
    LET rlen == IF "UNMAP" \in b.flag THEN 0
                ELSE SumLen(b.cigar, 1, {"M", "D", "N", "=", "X"})
    IN  b.pos + (IF rlen = 0 THEN 1 ELSE rlen)

-----------------------------------------------------------------------------
(* Signature derivation.                                                   *)

\* (chr & 0x1ff) << 55 | (pos & 0x7fffffff) << 24 | (len & 0xffffff),
\* the arguments being int32 values converted to uint64
PACK_CHRPOSLEN(chr, pos, len) ==
    << chr % 512,
       IF pos >= 0 THEN pos ELSE (pos + 2147483647) + 1,
       len % 16777216 >>

RECURSIVE LeadClip(_, _)
\* the loop of unclipped_start: clip lengths from cigar[i] up to the first non-clip
LeadClip(cigar, i) ==
    IF i > Len(cigar) THEN 0
    ELSE IF cigar[i].op \in {"S", "H"} THEN cigar[i].len + LeadClip(cigar, i + 1)
    ELSE 0

RECURSIVE TrailClip(_, _)
\* the loop of unclipped_end: clip lengths from cigar[i] down to the first non-clip
TrailClip(cigar, i) ==
    IF i < 1 THEN 0
    ELSE IF cigar[i].op \in {"S", "H"} THEN cigar[i].len + TrailClip(cigar, i - 1)
    ELSE 0

\* unclipped_start returning the 0-based position
unclipped_start_zero_based(b) == b.pos - LeadClip(b.cigar, 1)

unclipped_start(b) == b.pos - LeadClip(b.cigar, 1) + 1

unclipped_end(b) == bam_endpos(b) + TrailClip(b.cigar, Len(b.cigar))

Digits == {"0", "1", "2", "3", "4", "5", "6", "7", "8", "9"}

DigitVal(c) ==
    CASE c = "0" -> 0 [] c = "1" -> 1 [] c = "2" -> 2 [] c = "3" -> 3 [] c = "4" -> 4
      [] c = "5" -> 5 [] c = "6" -> 6 [] c = "7" -> 7 [] c = "8" -> 8 [] c = "9" -> 9

\* the character at index i of the tag text, "" standing for the terminating NUL
CharAt(s, i) == IF i <= Len(s) THEN s[i] ELSE ""

RECURSIVE StrtolFrom(_, _, _)
\* strtol(c, &c, 10) on a run of digits: <<value, index of the first non-digit>>
StrtolFrom(s, i, acc) ==
    IF CharAt(s, i) \in Digits THEN StrtolFrom(s, i + 1, acc * 10 + DigitVal(s[i]))
    ELSE <<acc, i>>

\* one turn of the scanning loops: <<num, index of the operation character>>
NextRun(s, i) == IF CharAt(s, i) \in Digits THEN StrtolFrom(s, i, 0) ELSE <<1, i>>

RECURSIVE OtherLeadClip(_, _)
OtherLeadClip(s, i) ==
    IF CharAt(s, i) \in {"", "*"} THEN 0
    ELSE LET r == NextRun(s, i)
         IN  IF CharAt(s, r[2]) \in {"S", "H"} THEN r[1] + OtherLeadClip(s, r[2] + 1)
             ELSE 0

unclipped_other_start(op, cigar) == op - OtherLeadClip(cigar, 1) + 1

RECURSIVE OtherRefPos(_, _, _)
OtherRefPos(s, i, skip) ==
    IF CharAt(s, i) \in {"", "*"} THEN 0
    ELSE LET r == NextRun(s, i)
             c == CharAt(s, r[2])
         IN  IF c \in {"M", "D", "N", "=", "X"} THEN r[1] + OtherRefPos(s, r[2] + 1, FALSE)
             ELSE IF c \in {"S", "H"}
                  THEN (IF skip THEN 0 ELSE r[1]) + OtherRefPos(s, r[2] + 1, skip)
             ELSE OtherRefPos(s, r[2] + 1, skip)

unclipped_other_end(op, cigar) == op + OtherRefPos(cigar, 1, TRUE)

ABS(x) == IF x < 0 THEN -x ELSE x

make_key(bam) ==
    LET chr1   == bam.tid
        start1 == unclipped_start(bam)
        len1   == unclipped_end(bam) - start1
    IN  IF bam.mtid >= 0
        THEN IF bam.mc # NoMC
             THEN LET start2 == unclipped_other_start(bam.mpos, bam.mc)
                      tmp    == unclipped_other_end(bam.mpos, bam.mc) - start2
                  IN  [lo |-> PACK_CHRPOSLEN(chr1, start1, len1),
                       hi |-> PACK_CHRPOSLEN(bam.mtid, start2, ABS(tmp))]
             ELSE LET rawlen == bam_endpos(bam) - bam.pos
                  IN  [lo |-> PACK_CHRPOSLEN(chr1, bam.pos, rawlen),
                       hi |-> PACK_CHRPOSLEN(bam.mtid, bam.mpos, rawlen)]
        ELSE [lo |-> PACK_CHRPOSLEN(chr1, start1, len1),
              hi |-> PACK_CHRPOSLEN(0, 0, 0)]

\* The first 8 bytes of SHA-256 over the 16 bytes of the key.  The digest is
\* kept symbolic: a value tagged "sha256" that is determined by the two words
\* and differs for different words (no collision among the keys of the model).
key_hash(k) == <<"sha256", k.lo, k.hi>>

key_equal_to(k1, k2) == key_hash(k1) = key_hash(k2)

RECURSIVE SumQual(_, _)
SumQual(qual, i) == IF i > Len(qual) THEN 0 ELSE qual[i] + SumQual(qual, i + 1)

\* the value get_qualsum returns
get_qualsum(b) == SumQual(b.qual, 1)

\* what get_qualsum adds to *q30
CountQ30(b) == Cardinality({i \in 1..Len(b.qual) : b.qual[i] >= 30})

-----------------------------------------------------------------------------
(* The duplicate table: std::unordered_map keyed through key_hash and      *)
(* key_equal_to, holding std::pair<ordinal, quality-sum>.  Two keys are    *)
(* the same entry exactly when key_equal_to says so, i.e. when their       *)
(* hashes are equal, so the table is a function on hash values.            *)

\* mp.count(key)
mp_count(table, key) == IF key_hash(key) \in DOMAIN table THEN 1 ELSE 0

\* the table after operator[] was applied to key (a missing key is inserted
\* with a value-initialised pair)
mp_touch(table, key) ==
    IF key_hash(key) \in DOMAIN table THEN table
    ELSE [h \in DOMAIN table \cup {key_hash(key)} |->
             IF h = key_hash(key) THEN <<0, 0>> ELSE table[h]]

\* the value mp[key] reads
mp_at(table, key) == mp_touch(table, key)[key_hash(key)]

\* mp[key] = value
mp_put(table, key, value) ==
    [h \in DOMAIN table \cup {key_hash(key)} |->
        IF h = key_hash(key) THEN value ELSE table[h]]

-----------------------------------------------------------------------------
(* Steps of the pass-1 loop body.                                          *)

\* the two `continue` tests of pass 1 are both false
TableEligible(c) ==
    /\ c.tid >= 0
    /\ c.flag \cap {"SECONDARY", "SUPPLEMENTARY", "UNMAP", "QCFAIL"} = {}

\* the record is counted into the fragment histogram
ConfidentPair(c) ==
    /\ c.mtid >= 0
    /\ "PROPER_PAIR" \in c.flag
    /\ c.isize > 0
    /\ c.mapq > 30

\* FragmentBin without the cap at MAX_FRAGMENT_SIZE
FragmentBinUncapped(c) == c.isize \div FRAGMENT_BIN_SIZE

FragmentBin(c) ==
    IF c.isize > MAX_FRAGMENT_SIZE THEN MAX_FRAGMENT_SIZE \div FRAGMENT_BIN_SIZE
    ELSE c.isize \div FRAGMENT_BIN_SIZE

\* fragment_histogram[fragment_bin]++
HistIncrement(hist, bin) ==
    [k \in DOMAIN hist \cup {bin} |->
        IF k = bin THEN (IF bin \in DOMAIN hist THEN hist[bin] ELSE 0) + 1 ELSE hist[k]]

\* TableUpdate with >= for >: a tie replaces the stored record
TableUpdateTieReplaces(table, key, ord, qualsum) ==
    IF mp_count(table, key) # 0
    THEN IF qualsum >= mp_at(table, key)[2]
         THEN mp_put(table, key, <<ord, qualsum>>)
         ELSE table
    ELSE mp_put(table, key, <<ord, qualsum>>)

\* the table after the if/else on mp.count(key)
TableUpdate(table, key, ord, qualsum) ==
    IF mp_count(table, key) # 0
    THEN IF qualsum > mp_at(table, key)[2]
         THEN mp_put(table, key, <<ord, qualsum>>)
         ELSE table
    ELSE mp_put(table, key, <<ord, qualsum>>)

\* CountDuplicate with the increment moved into the branch that keeps the
\* stored record
CountDuplicateOnlyLosers(table, key, qualsum, dup) ==
    IF mp_count(table, key) # 0 /\ ~(qualsum > mp_at(table, key)[2])
    THEN dup + 1
    ELSE dup

\* duplicate_reads after the same if/else
CountDuplicate(table, key, qualsum, dup) ==
    IF mp_count(table, key) # 0 THEN dup + 1 ELSE dup

-----------------------------------------------------------------------------
(* Steps of the pass-2 loop body.                                          *)

\* IsStoredWinner without the comparison of the ordinal
IsStoredWinnerByQuality(table, key, qualsum, ord) ==
    qualsum = mp_at(table, key)[2]

\* the winner test of pass 2
IsStoredWinner(table, key, qualsum, ord) ==
    /\ qualsum = mp_at(table, key)[2]
    /\ mp_at(table, key)[1] = ord

\* sam_write1 is called for record c read as number ord
Pass2Writes(table, c, ord) ==
    IF c.tid < 0 THEN TRUE
    ELSE IsStoredWinner(table, make_key(c), get_qualsum(c), ord)

\* the table after the loop body ran on c
Pass2Table(table, c) ==
    IF c.tid < 0 THEN table ELSE mp_touch(table, make_key(c))

-----------------------------------------------------------------------------
(* print_frag_stats.  A float is kept as the exact fraction <<num, den>>;  *)
(* a denominator of 0 is a division by zero.                               *)

MinOf(S) == CHOOSE x \in S : \A y \in S : x <= y

\* 2 * midpoint of bin k
Mid2(k) == 2 * k * FRAGMENT_BIN_SIZE + FRAGMENT_BIN_SIZE

RECURSIVE CSum2(_, _)
\* 2 * csum over the bins in keys
CSum2(hist, keys) ==
    IF keys = {} THEN 0
    ELSE LET k == MinOf(keys) IN Mid2(k) * hist[k] + CSum2(hist, keys \ {k})

RECURSIVE MedianScan(_, _, _, _)
\* the first loop from the smallest bin of keys on, dist being the running
\* count on entry: the median set at the first bin with dist >= half_dist,
\* 0 if there is none
MedianScan(hist, keys, dist, n) ==
    IF keys = {} THEN <<0, 1>>
    ELSE LET k == MinOf(keys)
             d == dist + hist[k]
         IN  IF 2 * d >= n
             THEN << 2 * hist[k] * k * FRAGMENT_BIN_SIZE + (n - 2 * d) * FRAGMENT_BIN_SIZE,
                     2 * hist[k] >>
             ELSE MedianScan(hist, keys \ {k}, d, n)

RECURSIVE CStd(_, _, _, _)
\* 4 * n^2 * cstd over the bins in keys
CStd(hist, keys, n, csum2) ==
    IF keys = {} THEN 0
    ELSE LET k == MinOf(keys)
             cmu == n * Mid2(k) - csum2
         IN  hist[k] * cmu * cmu + CStd(hist, keys \ {k}, n, csum2)

\* mean_divisor and stdev_divisor are the divisors of the two divisions
\* (lines 281 and 288); variance is the argument of sqrt.  With an empty
\* histogram the second loop does not run and cstd stays 0.f.
print_frag_stats(frag_hist, total_fragments) ==
    LET n     == total_fragments
        csum2 == CSum2(frag_hist, DOMAIN frag_hist)
        cstd  == IF DOMAIN frag_hist = {} THEN <<0, 1>>
                 ELSE <<CStd(frag_hist, DOMAIN frag_hist, n, csum2), 4 * n * n>>
    IN  [printed  |-> TRUE,
         mean     |-> <<csum2, 2 * n>>,
         median   |-> MedianScan(frag_hist, DOMAIN frag_hist, 0, n),
         variance |-> <<cstd[1], cstd[2] * (n - 1)>>,
         mean_divisor  |-> n,
         stdev_divisor |-> n - 1]

NoStats ==
    [printed |-> FALSE, mean |-> <<0, 1>>, median |-> <<0, 1>>, variance |-> <<0, 1>>,
     mean_divisor |-> 1, stdev_divisor |-> 1]

-----------------------------------------------------------------------------
(* The program state.                                                      *)

VARIABLES
    input,              \* the records of the file, in file order
    stats_only,         \* --statsonly was given
    pc,                 \* the position in main / dedup_bam
    iter,               \* the number of records the current iterator returned
    key,                \* the local `key`, as make_key left it
    total_reads,        \* the loop counter of both passes (the record ordinal)
    paired_reads,
    mapped_reads,
    bases_above_q30,
    total_bases,
    duplicate_reads,
    mp,                 \* the duplicate table
    fragment_histogram, \* bin -> count
    stats,              \* what print_frag_stats printed
    out,                \* what was written to standard output, in order
    exit_status,        \* the exit status of the process, -1 while it runs
    fatal,              \* the fatal condition the run met, "none" if none
    read_failed,        \* the pass in which sam_itr_next failed, 0 if none
    run,                \* 1: the run on the file; 2: the run on its output
    first_in,           \* the records the first run read
    first_out           \* the records the first run wrote

vars == <<input, stats_only, pc, iter, key, total_reads, paired_reads, mapped_reads,
          bases_above_q30, total_bases, duplicate_reads, mp, fragment_histogram,
          stats, out, exit_status, fatal, read_failed, run, first_in, first_out>>

EmptyMap == [h \in {} |-> <<0, 0>>]
EmptyHist == [k \in {} |-> 0]

Files == UNION {[1..n -> Records] : n \in 0..MaxRecords}

Header == [kind |-> "hdr"]
Written(ord, b) == [kind |-> "rec", ord |-> ord, rec |-> b]

\* the records written so far, without the header
RecordsOf(o) == SelectSeq(o, LAMBDA e : e.kind = "rec")
OutRecords == [i \in 1..Len(RecordsOf(out)) |-> RecordsOf(out)[i].rec]

\* the locals of dedup_bam as its declarations leave them
NoKey == [lo |-> PACK_CHRPOSLEN(0, 0, 0), hi |-> PACK_CHRPOSLEN(0, 0, 0)]

\* the record the iterator returned last
CurrentRecord == input[iter]

FreshLocals ==
    /\ iter = 0
    /\ key = NoKey
    /\ total_reads = 0
    /\ paired_reads = 0
    /\ mapped_reads = 0
    /\ bases_above_q30 = 0
    /\ total_bases = 0
    /\ duplicate_reads = 0
    /\ mp = EmptyMap
    /\ fragment_histogram = EmptyHist
    /\ stats = NoStats
    /\ out = << >>
    /\ exit_status = -1
    /\ fatal = "none"
    /\ read_failed = 0

Init ==
    /\ input \in Files
    /\ stats_only \in BOOLEAN
    /\ pc = "hts_open"
    /\ FreshLocals
    /\ run = 1
    /\ first_in = << >>
    /\ first_out = << >>

env == <<input, stats_only, run, first_in, first_out>>
counters == <<iter, key, total_reads, paired_reads, mapped_reads, bases_above_q30,
              total_bases, duplicate_reads, mp, fragment_histogram, stats>>

\* a set-up call succeeds and control moves on
Step(from, to) ==
    /\ pc = from
    /\ pc' = to
    /\ UNCHANGED <<env, counters, out, exit_status, fatal, read_failed>>

\* exit(1) after a diagnostic
Exit1(from, why) ==
    /\ pc = from
    /\ pc' = "exited"
    /\ exit_status' = 1
    /\ fatal' = why
    /\ UNCHANGED <<env, counters, out, read_failed>>

\* goto clean after a diagnostic
GotoClean(from, why) ==
    /\ pc = from
    /\ pc' = "clean"
    /\ fatal' = why
    /\ UNCHANGED <<env, counters, out, exit_status, read_failed>>

OpenInput   == Step("hts_open", "format")
CheckFormat == Step("format", "index_load")
LoadIndex   == Step("index_load", "open_out")
OpenOutput  == Step("open_out", "tpool")
InitPool    == Step("tpool", "hdr_read")
ReadHeader  == Step("hdr_read", "hdr_write")

WriteHeader ==
    /\ pc = "hdr_write"
    /\ pc' = "pass1"
    /\ out' = IF stats_only THEN out ELSE Append(out, Header)
    /\ UNCHANGED <<env, counters, exit_status, fatal, read_failed>>

\* Pass1Record with the loop counter stepped only for the records that are
\* not skipped (the `continue` jumping over the increment)
Pass1RecordSkipUncounted ==
    /\ pc = "pass1"
    /\ iter < Len(input)
    /\ iter' = iter + 1
    /\ LET b == input[iter + 1]
           qualsum == get_qualsum(b)
       IN  IF ~TableEligible(b)
           THEN UNCHANGED <<key, paired_reads, mapped_reads, bases_above_q30,
                            total_bases, duplicate_reads, mp, fragment_histogram>>
           ELSE /\ mapped_reads' = mapped_reads + 1
                /\ key' = make_key(b)
                /\ IF ConfidentPair(b)
                   THEN /\ fragment_histogram' =
                               HistIncrement(fragment_histogram, FragmentBin(b))
                        /\ paired_reads' = paired_reads + 2
                   ELSE UNCHANGED <<fragment_histogram, paired_reads>>
                /\ total_bases' = total_bases + Len(b.qual)
                /\ bases_above_q30' = bases_above_q30 + CountQ30(b)
                /\ duplicate_reads' = CountDuplicate(mp, key', qualsum, duplicate_reads)
                /\ mp' = TableUpdate(mp, key', total_reads, qualsum)
    /\ total_reads' = IF TableEligible(input[iter + 1]) THEN total_reads + 1
                      ELSE total_reads
    /\ UNCHANGED <<env, pc, stats, out, exit_status, fatal, read_failed>>

\* one turn of the pass-1 loop: sam_itr_next returned a record
Pass1Record ==
    /\ pc = "pass1"
    /\ iter < Len(input)
    /\ iter' = iter + 1
    /\ LET b == input[iter + 1]
           qualsum == get_qualsum(b)
       IN  IF ~TableEligible(b)
           THEN UNCHANGED <<key, paired_reads, mapped_reads, bases_above_q30,
                            total_bases, duplicate_reads, mp, fragment_histogram>>
           ELSE /\ mapped_reads' = mapped_reads + 1
                /\ key' = make_key(b)
                /\ IF ConfidentPair(b)
                   THEN /\ fragment_histogram' =
                               HistIncrement(fragment_histogram, FragmentBin(b))
                        /\ paired_reads' = paired_reads + 2
                   ELSE UNCHANGED <<fragment_histogram, paired_reads>>
                /\ total_bases' = total_bases + Len(b.qual)
                /\ bases_above_q30' = bases_above_q30 + CountQ30(b)
                /\ duplicate_reads' = CountDuplicate(mp, key', qualsum, duplicate_reads)
                /\ mp' = TableUpdate(mp, key', total_reads, qualsum)
    /\ total_reads' = total_reads + 1
    /\ UNCHANGED <<env, pc, stats, out, exit_status, fatal, read_failed>>

\* sam_itr_next returned -1 at the end of the file: pass 1 is over
Pass1End ==
    /\ pc = "pass1"
    /\ iter = Len(input)
    /\ pc' = "report"
    /\ UNCHANGED <<env, counters, out, exit_status, fatal, read_failed>>

\* the report, and the set-up of pass 2
Report ==
    /\ pc = "report"
    /\ stats' = print_frag_stats(fragment_histogram, paired_reads \div 2)
    /\ iter' = 0
    /\ IF stats_only
       THEN pc' = "clean" /\ UNCHANGED total_reads
       ELSE pc' = "pass2" /\ total_reads' = 0
    /\ UNCHANGED <<env, key, paired_reads, mapped_reads, bases_above_q30, total_bases,
                   duplicate_reads, mp, fragment_histogram, out, exit_status,
                   fatal, read_failed>>

\* one turn of the pass-2 loop: sam_itr_next returned a record and every
\* sam_write1 succeeded
Pass2Record ==
    /\ pc = "pass2"
    /\ iter < Len(input)
    /\ iter' = iter + 1
    /\ LET b == input[iter + 1]
       IN  /\ key' = IF b.tid < 0 THEN key ELSE make_key(b)
           /\ out' = IF Pass2Writes(mp, b, total_reads)
                     THEN Append(out, Written(total_reads, b))
                     ELSE out
           /\ mp' = Pass2Table(mp, b)
    /\ total_reads' = total_reads + 1
    /\ UNCHANGED <<env, pc, paired_reads, mapped_reads, bases_above_q30, total_bases,
                   duplicate_reads, fragment_histogram, stats, exit_status, fatal,
                   read_failed>>

Pass2End ==
    /\ pc = "pass2"
    /\ iter = Len(input)
    /\ pc' = "clean"
    /\ UNCHANGED <<env, counters, out, exit_status, fatal, read_failed>>

\* the clean label, the return to main and main's return 0
Clean ==
    /\ pc = "clean"
    /\ pc' = "exited"
    /\ exit_status' = 0
    /\ UNCHANGED <<env, counters, out, fatal, read_failed>>

\* the program is run again, with the same options, on the records it wrote
RunOnOutput ==
    /\ pc = "exited"
    /\ run = 1
    /\ exit_status = 0
    /\ fatal = "none"
    /\ read_failed = 0
    /\ ~stats_only
    /\ run' = 2
    /\ input' = OutRecords
    /\ first_in' = input
    /\ first_out' = OutRecords
    /\ pc' = "hts_open"
    /\ iter' = 0
    /\ key' = NoKey
    /\ total_reads' = 0
    /\ paired_reads' = 0
    /\ mapped_reads' = 0
    /\ bases_above_q30' = 0
    /\ total_bases' = 0
    /\ duplicate_reads' = 0
    /\ mp' = EmptyMap
    /\ fragment_histogram' = EmptyHist
    /\ stats' = NoStats
    /\ out' = << >>
    /\ exit_status' = -1
    /\ UNCHANGED <<stats_only, fatal, read_failed>>

Next ==
    \/ OpenInput
    \/ CheckFormat
    \/ LoadIndex
    \/ OpenOutput
    \/ InitPool
    \/ ReadHeader
    \/ WriteHeader
    \/ Pass1Record
    \/ Pass1End
    \/ Report
    \/ Pass2Record
    \/ Pass2End
    \/ Clean
    \/ RunOnOutput

Spec == Init /\ [][Next]_vars

-----------------------------------------------------------------------------
(* The same program with the failures of its collaborators.                *)

OpenInputFail   == Exit1("hts_open", "open_input")
FormatNotBam    == Exit1("format", "not_bam")
IndexMissing    == Exit1("index_load", "no_index")
OpenOutputFail  == GotoClean("open_out", "open_output")
InitPoolFail    == GotoClean("tpool", "thread_pool")
ReadHeaderFail  == GotoClean("hdr_read", "read_header")

WriteHeaderFail ==
    /\ ~stats_only
    /\ GotoClean("hdr_write", "write_header")

\* sam_itr_next returned a value below -1 in place of a record in pass 1:
\* the loop condition (>= 0) is false, as at the end of the file
Pass1ReadError ==
    /\ pc = "pass1"
    /\ iter < Len(input)
    /\ read_failed = 0
    /\ read_failed' = 1
    /\ pc' = "report"
    /\ UNCHANGED <<env, counters, out, exit_status, fatal>>

\* the same in pass 2
Pass2ReadError ==
    /\ pc = "pass2"
    /\ iter < Len(input)
    /\ read_failed = 0
    /\ read_failed' = 2
    /\ pc' = "clean"
    /\ UNCHANGED <<env, counters, out, exit_status, fatal>>

\* sam_write1 failed on a record pass 2 writes
Pass2WriteFail ==
    /\ pc = "pass2"
    /\ iter < Len(input)
    /\ Pass2Writes(mp, input[iter + 1], total_reads)
    /\ iter' = iter + 1
    /\ key' = IF input[iter + 1].tid < 0 THEN key ELSE make_key(input[iter + 1])
    /\ pc' = "exited"
    /\ exit_status' = 1
    /\ fatal' = "write_record"
    /\ mp' = Pass2Table(mp, input[iter + 1])
    /\ UNCHANGED <<env, total_reads, paired_reads, mapped_reads, bases_above_q30,
                   total_bases, duplicate_reads, fragment_histogram, stats, out,
                   read_failed>>

Failure ==
    \/ OpenInputFail
    \/ FormatNotBam
    \/ IndexMissing
    \/ OpenOutputFail
    \/ InitPoolFail
    \/ ReadHeaderFail
    \/ WriteHeaderFail
    \/ Pass1ReadError
    \/ Pass2ReadError
    \/ Pass2WriteFail

NextFault == Next \/ Failure

SpecFault == Init /\ [][NextFault]_vars

-----------------------------------------------------------------------------
(* Vocabulary of the properties.  Records are named by their position in   *)
(* the file, 1..Len(input); the ordinal of position i is i - 1.            *)

Positions == 1..Len(input)

\* mapped, non-secondary, non-supplementary, non-QC-fail
PrimaryMapped(b) ==
    /\ b.tid >= 0
    /\ "UNMAP" \notin b.flag
    /\ "SECONDARY" \notin b.flag
    /\ "SUPPLEMENTARY" \notin b.flag
    /\ "QCFAIL" \notin b.flag

\* the signature and the quality-sum of every record a file can hold
SignatureOf == [b \in Records |-> make_key(b)]
QualitySumOf == [b \in Records |-> get_qualsum(b)]

SameSignature(i, j) == key_equal_to(SignatureOf[input[i]], SignatureOf[input[j]])

QualitySum(i) == QualitySumOf[input[i]]

\* the primary mapped records with the signature of position i
Family(i) == {j \in Positions : PrimaryMapped(input[j]) /\ SameSignature(i, j)}

\* j is the record of greatest quality-sum of the family of i, the earliest
\* of those with that quality-sum
IsBestOf(j, i) ==
    /\ j \in Family(i)
    /\ \A k \in Family(i) :
          \/ QualitySum(k) < QualitySum(j)
          \/ QualitySum(k) = QualitySum(j) /\ j <= k

\* the places of out that hold records
OutPlaces == {k \in 1..Len(out) : out[k].kind = "rec"}

\* the places of out where position i was written
PlacesOf(i) == {k \in OutPlaces : out[k].ord = i - 1}

Emitted(i) == PlacesOf(i) # {}

\* a run that wrote records ended normally
FinishedWriting == pc = "exited" /\ exit_status = 0 /\ ~stats_only

-----------------------------------------------------------------------------
\* C1: after both passes, for every signature occurring among the mapped,
\* non-secondary, non-supplementary, non-QC-fail records, exactly one record
\* with that signature is written, once, and it is the record of greatest
\* quality-sum with that signature, the earliest one on a tie.
C1_OneBestWinnerPerSignature ==
    FinishedWriting =>
        \A i \in Positions :
            PrimaryMapped(input[i]) =>
                \E w \in Positions :
                    /\ IsBestOf(w, i)
                    /\ Cardinality(PlacesOf(w)) = 1
                    /\ \A j \in Positions :
                          (SameSignature(i, j) /\ Emitted(j)) => j = w

\* a later record beat an earlier one of its signature, and a tie for the
\* best quality-sum was settled for the earlier record
C1_Witness ==
    /\ FinishedWriting
    /\ run = 1
    /\ \E i, j, k \in Positions :
          /\ i < j /\ j < k
          /\ PrimaryMapped(input[i]) /\ PrimaryMapped(input[j]) /\ PrimaryMapped(input[k])
          /\ SameSignature(i, j) /\ SameSignature(j, k)
          /\ QualitySum(i) < QualitySum(j)
          /\ QualitySum(j) = QualitySum(k)
          /\ Emitted(j) /\ ~Emitted(i) /\ ~Emitted(k)

-----------------------------------------------------------------------------
\* C2: every record with the unmapped flag, with or without a reference id,
\* is written exactly once by pass 2.
C2_UnmappedAlwaysEmitted ==
    FinishedWriting =>
        \A i \in Positions :
            "UNMAP" \in input[i].flag => Cardinality(PlacesOf(i)) = 1

-----------------------------------------------------------------------------
\* C3: every secondary, supplementary or QC-fail record that pass 1 skipped
\* is written by pass 2, unchanged, whatever the table holds for its
\* signature.
C3_SkippedAlwaysEmitted ==
    FinishedWriting =>
        \A i \in Positions :
            input[i].flag \cap {"SECONDARY", "SUPPLEMENTARY", "QCFAIL"} # {} =>
                \E k \in PlacesOf(i) : out[k].rec = input[i]

-----------------------------------------------------------------------------
\* C4: the run on the records the first run wrote reports zero duplicate
\* reads and writes the same records again.
C4_Idempotent ==
    /\ (run = 2 /\ pc \in {"report", "pass2", "clean", "exited"}) => duplicate_reads = 0
    /\ (run = 2 /\ FinishedWriting) => OutRecords = first_out

\* the second run ended, on the output of a first run that removed records
\* and kept several
C4_Witness ==
    /\ run = 2
    /\ FinishedWriting
    /\ Len(first_out) < Len(first_in)
    /\ Len(first_out) >= 2
    /\ mapped_reads >= 1

-----------------------------------------------------------------------------
\* C5: what is written is the header, once and first, followed by input
\* records, each at most once, unchanged and in input order; in both passes
\* the ordinal of a record is its 0-based place in the file, skipped records
\* counted.
C5_OrderedSubsequence ==
    /\ \A k \in 1..Len(out) : out[k].kind = "hdr" => k = 1
    /\ OutPlaces # {} => out[1] = Header
    /\ (~stats_only /\ pc \in {"pass1", "report", "pass2"}) => out[1] = Header
    /\ \A k, l \in OutPlaces : k < l => out[k].ord < out[l].ord
    /\ \A k \in OutPlaces :
          /\ out[k].ord + 1 \in Positions
          /\ out[k].rec = input[out[k].ord + 1]
    /\ pc \in {"pass1", "pass2"} => total_reads = iter
    /\ pc \in {"pass1", "report"} =>
          \A h \in DOMAIN mp :
              /\ mp[h][1] + 1 \in Positions
              /\ key_hash(SignatureOf[input[mp[h][1] + 1]]) = h

\* two records were written around one that was dropped, after a record
\* that pass 1 skipped
C5_Witness ==
    /\ FinishedWriting
    /\ run = 1
    /\ out[1] = Header
    /\ \E i, j, k \in Positions :
          /\ i < j /\ j < k
          /\ Emitted(i) /\ ~Emitted(j) /\ Emitted(k)
          /\ ~PrimaryMapped(input[i])

-----------------------------------------------------------------------------
\* the primary mapped records pass 1 has scanned
ScannedEligible == {i \in 1..iter : PrimaryMapped(input[i])}

\* the first record of each signature among a set of positions
FirstOfSignature(S) == {i \in S : \A j \in S : SameSignature(i, j) => i <= j}

\* C6: at every point of pass 1, duplicate_reads plus the number of table
\* entries is the number of table-eligible records scanned; from the end of
\* pass 1 on, duplicate_reads is the number of eligible records minus the
\* number of their distinct signatures.
C6_DuplicateCount ==
    /\ pc = "pass1" =>
          duplicate_reads + Cardinality(DOMAIN mp) = Cardinality(ScannedEligible)
    /\ (pc = "report" \/ stats.printed) =>
          LET eligible == {i \in Positions : PrimaryMapped(input[i])}
          IN  duplicate_reads =
                  Cardinality(eligible) - Cardinality(FirstOfSignature(eligible))

\* pass 1 is over; quality-sums 80 then 95 of one signature gave a count of 1
C6_Witness ==
    /\ pc = "report"
    /\ Len(input) = 2
    /\ PrimaryMapped(input[1]) /\ PrimaryMapped(input[2])
    /\ SameSignature(1, 2)
    /\ QualitySum(1) = 80 /\ QualitySum(2) = 95
    /\ duplicate_reads = 1

-----------------------------------------------------------------------------
\* C7: every fatal condition ends the process with a non-zero exit status.
C7_FatalExitsNonZero ==
    (pc = "exited" /\ fatal # "none") => exit_status # 0

-----------------------------------------------------------------------------
\* C8: a failed read ends the run: after a read failure in pass 1 there is no
\* pass 2 and no record is written, and a run in which a read failed does not
\* end as a run that reached the end of the stream does.
C8_ReadFailureTerminates ==
    /\ read_failed = 1 => (pc # "pass2" /\ OutPlaces = {})
    /\ (read_failed # 0 /\ pc = "exited") => exit_status # 0

-----------------------------------------------------------------------------
IsClip(o) == o.op \in {"S", "H"}

RECURSIVE SumOfLens(_, _, _)
\* the sum of the lengths of cigar[from..to]
SumOfLens(cigar, from, to) ==
    IF from > to THEN 0 ELSE cigar[from].len + SumOfLens(cigar, from + 1, to)

\* the number of clip operations the CIGAR starts with / ends with
LeadingClips(cigar) ==
    CHOOSE n \in 0..Len(cigar) :
        /\ \A k \in 1..n : IsClip(cigar[k])
        /\ n = Len(cigar) \/ ~IsClip(cigar[n + 1])
TrailingClips(cigar) ==
    CHOOSE n \in 0..Len(cigar) :
        /\ \A k \in (Len(cigar) - n + 1)..Len(cigar) : IsClip(cigar[k])
        /\ n = Len(cigar) \/ ~IsClip(cigar[Len(cigar) - n])

\* the primary word from the unclipped start and the unclipped length
UnclippedWord(b) ==
    LET start == b.pos - SumOfLens(b.cigar, 1, LeadingClips(b.cigar)) + 1
        end   == bam_endpos(b)
                 + SumOfLens(b.cigar, Len(b.cigar) - TrailingClips(b.cigar) + 1, Len(b.cigar))
    IN  PACK_CHRPOSLEN(b.tid, start, end - start)

\* the primary word from the raw position and the raw length
RawWord(b) == PACK_CHRPOSLEN(b.tid, b.pos, bam_endpos(b) - b.pos)

\* make_key has just filled `key` from the current record, a mapped one
KeyOfMappedRecord ==
    /\ iter > 0
    /\ \/ pc = "pass1" /\ PrimaryMapped(CurrentRecord)
       \/ pc = "pass2" /\ CurrentRecord.tid >= 0 /\ "UNMAP" \notin CurrentRecord.flag

-----------------------------------------------------------------------------
RECURSIVE CountIn(_, _)
\* the number of fragments in the bins of keys
CountIn(hist, keys) ==
    IF keys = {} THEN 0
    ELSE LET k == CHOOSE x \in keys : TRUE IN hist[k] + CountIn(hist, keys \ {k})

Bins == DOMAIN fragment_histogram
CumulativeBefore(k) == CountIn(fragment_histogram, {x \in Bins : x < k})
CumulativeThrough(k) == CountIn(fragment_histogram, {x \in Bins : x <= k})

\* N = confidently-paired-reads / 2
Fragments == paired_reads \div 2

\* the first bin whose cumulative count reaches N/2
MedianBin ==
    CHOOSE k \in Bins :
        /\ 2 * CumulativeThrough(k) >= Fragments
        /\ \A x \in Bins : x < k => 2 * CumulativeThrough(x) < Fragments

\* C10: for a non-empty histogram the reported median is
\* lower + ((N/2 - count of the bins before the median bin) / count of the
\* median bin) * BIN_WIDTH, and lies between the bounds of the median bin.
C10_MedianInterpolation ==
    (stats.printed /\ Bins # {}) =>
        LET k     == MedianBin
            f     == fragment_histogram[k]
            lower == k * FRAGMENT_BIN_SIZE
            upper == lower + FRAGMENT_BIN_SIZE
            num   == 2 * f * lower + (Fragments - 2 * CumulativeBefore(k)) * FRAGMENT_BIN_SIZE
            den   == 2 * f
        IN  /\ stats.median[1] * den = num * stats.median[2]
            /\ lower * stats.median[2] <= stats.median[1]
            /\ stats.median[1] <= upper * stats.median[2]

-----------------------------------------------------------------------------
\* C11: when N is 0 or 1 the statistics step divides by no zero divisor
\* (neither the mean's division by N nor the stdev's division by N - 1) and
\* reports the stdev as undefined instead of computing it; for N >= 2 both
\* divisions are made, by non-zero divisors.
C11_NoDivisionByZero ==
    stats.printed =>
        /\ stats.mean_divisor # 0
        /\ stats.stdev_divisor # 0
        /\ Fragments >= 2 =>
              /\ stats.mean_divisor = Fragments
              /\ stats.stdev_divisor = Fragments - 1

-----------------------------------------------------------------------------
\* C12: the duplicate table is read-only in pass 2: no step of pass 2 changes
\* the set of its keys or a stored (ordinal, quality-sum) pair.
C12_TableReadOnlyInPass2 ==
    [][pc = "pass2" => mp' = mp]_vars

-----------------------------------------------------------------------------
\* the records pass 1 has scanned
Scanned ==
    IF pc = "pass1" THEN 1..iter
    ELSE IF pc = "report" \/ stats.printed THEN Positions
    ELSE {}

\* proper-pair flag set, insert size positive, mapping quality above 30
FlaggedConfident(b) ==
    /\ "PROPER_PAIR" \in b.flag
    /\ b.isize > 0
    /\ b.mapq > 30

\* the same, for a record that has a mate reference id
FlaggedConfidentWithMate(b) == FlaggedConfident(b) /\ b.mtid >= 0

\* floor(min(insert_size, MAX_SIZE) / BIN_WIDTH)
BinOfSize(b) ==
    (IF b.isize < MAX_FRAGMENT_SIZE THEN b.isize ELSE MAX_FRAGMENT_SIZE)
        \div FRAGMENT_BIN_SIZE

\* the histogram holds exactly the scanned table-eligible records that
\* satisfy Binned, each in its bin; no bin lies above MAX_SIZE / BIN_WIDTH;
\* confidently-paired-reads is twice the sum of the bin counts
HistogramIs(Binned(_)) ==
    LET binned == {i \in Scanned : PrimaryMapped(input[i]) /\ Binned(input[i])}
    IN  /\ Bins = {BinOfSize(input[i]) : i \in binned}
        /\ \A k \in Bins :
              /\ fragment_histogram[k] =
                     Cardinality({i \in binned : BinOfSize(input[i]) = k})
              /\ k <= MAX_FRAGMENT_SIZE \div FRAGMENT_BIN_SIZE
        /\ paired_reads = 2 * CountIn(fragment_histogram, Bins)

\* C13 as stated: a table-eligible record is binned if and only if its
\* proper-pair flag is set, its insert size is positive and its mapping
\* quality is above 30, into bin floor(min(insert_size, MAX_SIZE) / BIN_WIDTH)
\* <= 400, and confidently-paired-reads is twice the sum of the bin counts.
C13_BinnedIffFlagged == HistogramIs(FlaggedConfident)

\* C13 amended: the same, the condition being that the record also has a
\* mate reference id (mtid >= 0).
C13_BinnedIffFlaggedWithMate == HistogramIs(FlaggedConfidentWithMate)

\* pass 1 is over: an insert size above MAX_SIZE went into bin 400, one
\* record with the three conditions but no mate reference and one with a low
\* mapping quality were left out
C13_Witness ==
    /\ pc = "report"
    /\ run = 1
    /\ Bins = {MAX_FRAGMENT_SIZE \div FRAGMENT_BIN_SIZE}
    /\ paired_reads = 2
    /\ \E i, j \in Positions :
          /\ PrimaryMapped(input[i]) /\ FlaggedConfident(input[i]) /\ input[i].mtid < 0
          /\ PrimaryMapped(input[j]) /\ "PROPER_PAIR" \in input[j].flag
          /\ input[j].isize > 0 /\ input[j].mapq <= 30

-----------------------------------------------------------------------------
(* The earlier revision of the program (src/unnamed/part_001): the key is  *)
(* packed from the raw position and length in dedup_bam itself, and        *)
(* key_hash mixes the two words with two complementary bit masks.          *)

RECURSIVE MaskedMix(_, _, _)
\* the bits of (lo & 0x5a5a5a5a5a5a5a5a) | (hi & 0xa5a5a5a5a5a5a5a5) that
\* belong to one bit field, a and b being the field's values in lo and hi and
\* bit the place in the word of their lowest bit: within every byte the mask
\* 0x5a keeps bits 1, 3, 4, 6 and the mask 0xa5 keeps bits 0, 2, 5, 7
MaskedMix(a, b, bit) ==
    IF a = 0 /\ b = 0 THEN 0
    ELSE (IF bit % 8 \in {1, 3, 4, 6} THEN a % 2 ELSE b % 2)
         + 2 * MaskedMix(a \div 2, b \div 2, bit + 1)

\* key_hash of part_001, as the three bit fields of the 64-bit result
packed_key_hash(k) ==
    << MaskedMix(k.lo[1], k.hi[1], 55),
       MaskedMix(k.lo[2], k.hi[2], 24),
       MaskedMix(k.lo[3], k.hi[3], 0) >>

packed_key_equal_to(k1, k2) == packed_key_hash(k1) = packed_key_hash(k2)

\* the key dedup_bam of part_001 builds for record b
PackedKey(b) ==
    LET chr    == b.tid
        start  == b.pos
        len    == bam_endpos(b) - start
        chr2   == IF b.mtid >= 0 THEN b.mtid ELSE 0
        start2 == IF b.mtid >= 0 THEN b.mpos ELSE 0
    IN  [lo |-> PACK_CHRPOSLEN(chr, start, len),
         hi |-> PACK_CHRPOSLEN(chr2, start2, len)]

\* the table of part_001 is a function on the values of packed_key_hash
PackedCount(table, k) == IF packed_key_hash(k) \in DOMAIN table THEN 1 ELSE 0

PackedTouch(table, k) ==
    IF packed_key_hash(k) \in DOMAIN table THEN table
    ELSE [h \in DOMAIN table \cup {packed_key_hash(k)} |->
             IF h = packed_key_hash(k) THEN <<0, 0>> ELSE table[h]]

PackedAt(table, k) == PackedTouch(table, k)[packed_key_hash(k)]

PackedPut(table, k, value) ==
    [h \in DOMAIN table \cup {packed_key_hash(k)} |->
        IF h = packed_key_hash(k) THEN value ELSE table[h]]

\* The records a file of this revision's model is made of.
PackedRecords ==
    { \* chrom 0, pos 100, 90M, unpaired, quality-sum 80
      Rec(0, 100, {}, <<Op("M", 90)>>, -1, -1, NoMC, <<40, 40>>, 0, 60),
      \* the same place, quality-sum 95
      Rec(0, 100, {}, <<Op("M", 90)>>, -1, -1, NoMC, <<47, 48>>, 0, 60),
      \* one base further (pos 101)
      Rec(0, 101, {}, <<Op("M", 90)>>, -1, -1, NoMC, <<45, 45>>, 0, 60),
      \* two bases further (pos 102)
      Rec(0, 102, {}, <<Op("M", 90)>>, -1, -1, NoMC, <<41, 41>>, 0, 60),
      \* the same position on chrom 1
      Rec(1, 100, {}, <<Op("M", 90)>>, -1, -1, NoMC, <<42, 42>>, 0, 60),
      \* paired, mate at 300
      Rec(0, 100, {"PAIRED"}, <<Op("M", 90)>>, 0, 300, NoMC, <<43, 43>>, 290, 60),
      \* unmapped, no reference id
      Rec(-1, -1, {"UNMAP"}, << >>, -1, -1, NoMC, <<30>>, 0, 0) }

PackedFiles == UNION {[1..n -> PackedRecords] : n \in 0..MaxRecords}

InitPacked ==
    /\ input \in PackedFiles
    /\ stats_only \in BOOLEAN
    /\ pc = "hts_open"
    /\ FreshLocals
    /\ run = 1
    /\ first_in = << >>
    /\ first_out = << >>

\* one turn of the pass-1 loop of part_001
PackedPass1Record ==
    /\ pc = "pass1"
    /\ iter < Len(input)
    /\ iter' = iter + 1
    /\ LET b == input[iter + 1]
           k == PackedKey(b)
           qualsum == get_qualsum(b)
       IN  IF b.tid < 0
           THEN UNCHANGED <<mapped_reads, bases_above_q30, total_bases,
                            duplicate_reads, mp>>
           ELSE /\ mapped_reads' = mapped_reads + 1
                /\ total_bases' = total_bases + Len(b.qual)
                /\ bases_above_q30' = bases_above_q30 + CountQ30(b)
                /\ IF PackedCount(mp, k) # 0
                   THEN /\ duplicate_reads' = duplicate_reads + 1
                        /\ mp' = IF qualsum > PackedAt(mp, k)[2]
                                 THEN PackedPut(mp, k, <<total_reads, qualsum>>)
                                 ELSE mp
                   ELSE /\ duplicate_reads' = duplicate_reads
                        /\ mp' = PackedPut(mp, k, <<total_reads, qualsum>>)
    /\ total_reads' = total_reads + 1
    /\ UNCHANGED <<env, pc, key, paired_reads, fragment_histogram, stats, out,
                   exit_status, fatal, read_failed>>

\* the report of part_001 and the set-up of its pass 2
PackedReport ==
    /\ pc = "report"
    /\ iter' = 0
    /\ IF stats_only
       THEN pc' = "clean" /\ UNCHANGED total_reads
       ELSE pc' = "pass2" /\ total_reads' = 0
    /\ UNCHANGED <<env, key, paired_reads, mapped_reads, bases_above_q30, total_bases,
                   duplicate_reads, mp, fragment_histogram, stats, out, exit_status,
                   fatal, read_failed>>

\* one turn of the pass-2 loop of part_001
PackedPass2Record ==
    /\ pc = "pass2"
    /\ iter < Len(input)
    /\ iter' = iter + 1
    /\ LET b == input[iter + 1]
           k == PackedKey(b)
       IN  IF b.tid < 0
           THEN /\ out' = Append(out, Written(total_reads, b))
                /\ mp' = mp
           ELSE /\ out' = IF PackedAt(mp, k)[1] = total_reads
                          THEN Append(out, Written(total_reads, b))
                          ELSE out
                /\ mp' = PackedTouch(mp, k)
    /\ total_reads' = total_reads + 1
    /\ UNCHANGED <<env, pc, key, paired_reads, mapped_reads, bases_above_q30,
                   total_bases, duplicate_reads, fragment_histogram, stats,
                   exit_status, fatal, read_failed>>

NextPacked ==
    \/ OpenInput
    \/ CheckFormat
    \/ LoadIndex
    \/ OpenOutput
    \/ InitPool
    \/ ReadHeader
    \/ WriteHeader
    \/ PackedPass1Record
    \/ Pass1End
    \/ PackedReport
    \/ PackedPass2Record
    \/ Pass2End
    \/ Clean

SpecPacked == InitPacked /\ [][NextPacked]_vars

-----------------------------------------------------------------------------
\* (chrom, start, length, mate chrom, mate start) of a record of part_001
FieldsOf(b) ==
    << b.tid, b.pos, bam_endpos(b) - b.pos,
       IF b.mtid >= 0 THEN b.mtid ELSE 0,
       IF b.mtid >= 0 THEN b.mpos ELSE 0 >>

\* the records with a reference id that pass 1 of part_001 has put through
\* the table
Keyed == {i \in 1..iter : input[i].tid >= 0}

\* C14: under the identity policy two signatures compare equal if and only
\* if both packed words are equal, so a record is counted as a duplicate only
\* of a record with the same (chrom, start, length, mate chrom, mate start):
\* in pass 1 the duplicate count is the number of records put through the
\* table minus the number of their distinct field tuples.
C14_EqualIffWordsEqual ==
    pc \in {"pass1", "report"} =>
        /\ \A i, j \in Keyed :
              packed_key_equal_to(PackedKey(input[i]), PackedKey(input[j]))
                  <=> /\ PackedKey(input[i]).lo = PackedKey(input[j]).lo
                      /\ PackedKey(input[i]).hi = PackedKey(input[j]).hi
        /\ duplicate_reads =
               Cardinality(Keyed) - Cardinality({FieldsOf(input[i]) : i \in Keyed})

====
